---- MODULE Spec2Model ----
(***************************************************************************)
(* whistle: log classification and adaptive suppression.                   *)
(*                                                                         *)
(* The model covers the Classifier Gateway (llm.analyze_log), the batch    *)
(* loop (analyze), the live loop (monitor), the user rule commands         *)
(* (ignore add / delete / delete-all) and the persisted configuration      *)
(* (config.load_config / config.save_config).                              *)
(*                                                                         *)
(* Text is a sequence of one-character strings.  Python's None is the      *)
(* one-element tuple <<"None">>, an absent dictionary key is <<"Absent">>; *)
(* neither is a text, because their element is not a character.            *)
(***************************************************************************)
EXTENDS Integers, Sequences, FiniteSets, TLC

VARIABLES
    store,        \* the "ignore" list of the persisted config.json
    api_key,      \* conf['llm']['api_key'] is set
    model,        \* conf['llm']['model'] is set
    max_len,      \* conf['llm_max_log_length']: <<>> when the key is absent, <<n>> otherwise
    mode,         \* "batch" (analyze) or "live" (monitor)
    slack,        \* conf['alert']['slack'] is set
    pc,           \* position of the run: "start", "loaded", "loop", "done", "crashed"
    process,      \* monitor's journalctl subprocess: "none", "running", "terminated"
    conf_ignore,  \* conf['ignore'] of the running process
    ignore_list,  \* the batch loop's ignore_list (line 342)
    clock,        \* int(time.time()), relative to the start of the run
    steps,        \* entries read from the source so far
    cmds,         \* user rule commands executed so far
    entry,        \* the entry of the last loop iteration
    outcome,      \* what the last iteration did with it: "blank" (skipped), "ignored"
                  \* (suppressed by the pre-check), "classified" (analyze_log returned),
                  \* "raised" (analyze_log raised), "precheck_raised" (the pre-check raised)
    oracle,       \* what the oracle did in the last iteration
    submitted,    \* the text sent to the oracle in the last iteration, or None
    analysis,     \* the verdict analyze_log returned in the last iteration
    learned,      \* the last iteration appended a rule
    saveReq,      \* the save_config call of the last iteration
    alerted,      \* the last iteration called send_alert
    alert_msg,    \* the message of that call
    events,       \* what the last iteration printed and saved, in order
    alert_result, \* what that call printed: "sent", "failed", "error", "no_channel"
    alerts,       \* calls of send_alert so far
    alert_failures, \* calls of send_alert so far that did not deliver
    nonblank,     \* entries of the batch run that passed "if not entry: continue"
    stats,        \* the batch run's counters
    mem,          \* processes sharing the store: the rule list each holds in memory
    ppc,          \* processes sharing the store: the position of each
    last,         \* the process whose save_config succeeded last, and how many did
    replaced,     \* the content of the file that save replaced
    report        \* the last rule command of the command process: its arguments
                  \* and what it printed

vars == <<store, api_key, model, max_len, mode, slack, pc, process, conf_ignore, ignore_list,
          clock, steps, cmds, entry, outcome, oracle, submitted, analysis,
          learned, saveReq, alerted, alert_msg, events, alert_result, alerts,
          alert_failures, nonblank, stats,
          mem, ppc, last, replaced, report>>

cfgVars == <<api_key, model, max_len, mode, slack>>
procVars == <<mem, ppc, last, replaced, report>>
iterVars == <<entry, outcome, oracle, submitted, analysis, learned, saveReq, alerted,
              alert_msg, events, alert_result>>

----------------------------------------------------------------------------
(* Bounds of the model *)

MaxEntries == 2     \* entries a run reads from its source
MaxCmds == 1        \* user rule commands during a behaviour
MaxClock == 1       \* seconds that pass during a run
MaxRuleCmds == 2    \* rule commands of a sequence of commands

----------------------------------------------------------------------------
(* Values *)

None == <<"None">>
Absent == <<"Absent">>

Min(a, b) == IF a < b THEN a ELSE b
Max(a, b) == IF a > b THEN a ELSE b

\* the character c repeated n times
Rep(c, n) == [i \in 1..n |-> c]

TRUNCATED == <<":", ":", "T", "R", "U", "N", "C", "A", "T", "E", "D">>
DefaultMaxLogLength == 256
CommentPrefixLen == 50

\* log_entry[:k] for any integer k
Slice(s, k) ==
    IF k >= 0 THEN SubSeq(s, 1, Min(k, Len(s)))
    ELSE SubSeq(s, 1, Max(Len(s) + k, 0))

\* re.compile succeeds on the pattern (within the patterns of the model:
\* literal characters, and "(" which opens a group that is never closed)
Compiles(p) == \A i \in 1..Len(p) : p[i] # "("

\* re.search of a literal pattern: unanchored substring search
Search(p, s) == \E i \in 0..(Len(s) - Len(p)) : SubSeq(s, i + 1, i + Len(p)) = p

\* Python truthiness of analysis.get('ignore_regex')
Truthy(p) == p # None /\ p # <<>>

\* the characters str.strip() removes
IsSpace(c) == c \in {" ", "\t", "\n", "\r"}

RECURSIVE StripLeft(_)
StripLeft(s) == IF s # <<>> /\ IsSpace(Head(s)) THEN StripLeft(Tail(s)) ELSE s

RECURSIVE StripRight(_)
StripRight(s) ==
    IF s # <<>> /\ IsSpace(s[Len(s)]) THEN StripRight(SubSeq(s, 1, Len(s) - 1)) ELSE s

\* line.strip()
Strip(s) == StripRight(StripLeft(s))

----------------------------------------------------------------------------
(* llm.analyze_log *)

Reason(kind, detail, rule) == [kind |-> kind, detail |-> detail, rule |-> rule]

\* the verdict before any iteration, and of an iteration that made no verdict
NoAnalysis ==
    [is_anomaly |-> FALSE, reason |-> Reason("none", "", None),
     ignore_regex |-> None, ignore_regex_name |-> Absent]

\* a gateway that asks for either credential instead of both
Configured_any(key, mdl) == key \/ mdl

\* all([api_key, model])
Configured(key, mdl) == key /\ mdl

\* the fixed verdict of an unconfigured installation (lines 28-35)
NotConfiguredVerdict ==
    [is_anomaly |-> FALSE, reason |-> Reason("not_configured", "", None),
     ignore_regex |-> None, ignore_regex_name |-> Absent]

\* the fail-safe verdict of the except branch (lines 66-71)
ErrorVerdict(detail) ==
    [is_anomaly |-> TRUE, reason |-> Reason("error", detail, None),
     ignore_regex |-> None, ignore_regex_name |-> Absent]

\* the verdict parsed from a well-formed oracle response (lines 60-64)
OracleVerdict(o) ==
    [is_anomaly |-> o.is_anomaly, reason |-> Reason("llm", "", None),
     ignore_regex |-> o.ignore_regex, ignore_regex_name |-> o.ignore_regex_name]

\* config.get('llm_max_log_length', 256)
MaxLogLength(ml) == IF ml = <<>> THEN DefaultMaxLogLength ELSE ml[1]

\* the condition of line 44
TooLong(log_entry, ml) == Len(log_entry) > MaxLogLength(ml)

\* the right-hand side of line 45, where config['llm_max_log_length'] exists
Truncate(log_entry, ml) == Slice(log_entry, ml[1] - Len(TRUNCATED)) \o TRUNCATED

\* a loop over the rules that stops one rule early
FirstHit_skipLast(rules, text) ==
    LET hits == {i \in 1..(Len(rules) - 1) :
                    ~Compiles(rules[i].regex) \/ Search(rules[i].regex, text)}
    IN IF hits = {} THEN 0
       ELSE CHOOSE i \in hits : \A j \in hits : i <= j

\* the position of the first rule on which the loop over the rules stops:
\* the first whose pattern matches the text or does not compile; 0 if none
FirstHit(rules, text) ==
    LET hits == {i \in 1..Len(rules) :
                    ~Compiles(rules[i].regex) \/ Search(rules[i].regex, text)}
    IN IF hits = {} THEN 0
       ELSE CHOOSE i \in hits : \A j \in hits : i <= j

\* re.search raises re.error on the rule the loop stops at
ScanRaises(rules, text) ==
    LET i == FirstHit(rules, text) IN i # 0 /\ ~Compiles(rules[i].regex)

\* the loop finds a matching rule: its position, or 0
ScanMatch(rules, text) ==
    LET i == FirstHit(rules, text)
    IN IF i # 0 /\ Compiles(rules[i].regex) THEN i ELSE 0

\* an override that also drops the oracle's suggestion
Override_discarding(a, rule) ==
    [a EXCEPT !.is_anomaly = FALSE,
              !.reason = Reason("override", "", rule.name),
              !.ignore_regex = None]

\* lines 80-81: the rule overrides the verdict, the other keys are kept
Override(a, rule) ==
    [a EXCEPT !.is_anomaly = FALSE,
              !.reason = Reason("override", "", rule.name)]

\* lines 76-82
ApplyIgnore(a, rules, text) ==
    LET i == ScanMatch(rules, text)
    IN IF i = 0 THEN a ELSE Override(a, rules[i])

\* the text of the user message of line 54
OracleInput(log_entry, ml) ==
    IF TooLong(log_entry, ml) THEN Truncate(log_entry, ml) ELSE log_entry

\* analyze_log(log_entry, config) with the oracle's behaviour o:
\* raised is "" when the function returns
analyze_log(log_entry, key, mdl, ml, rules, o) ==
    IF ~Configured(key, mdl)
    THEN [raised |-> "", called |-> FALSE, submitted |-> None,
          analysis |-> NotConfiguredVerdict]
    ELSE IF TooLong(log_entry, ml) /\ ml = <<>>
    THEN [raised |-> "KeyError", called |-> FALSE, submitted |-> None,
          analysis |-> NoAnalysis]
    ELSE LET text == OracleInput(log_entry, ml)
             a == IF o.ok THEN OracleVerdict(o) ELSE ErrorVerdict(o.fail)
         IN IF ScanRaises(rules, text)
            THEN [raised |-> "re.error", called |-> TRUE, submitted |-> text,
                  analysis |-> NoAnalysis]
            ELSE [raised |-> "", called |-> TRUE, submitted |-> text,
                  analysis |-> ApplyIgnore(a, rules, text)]

----------------------------------------------------------------------------
(* Inputs of the model *)

Blank == <<>>
\* a line of whitespace only
Spaces == <<" ">>
ShortEntry == <<"b">>
\* an entry one character longer than the limit ml sets, matched by "x" in
\* its first character and by "b" in its last
OverLimit(ml) == Rep("x", MaxLogLength(ml)) \o <<"b">>
\* the entries a source produces under the limit ml: a blank line, an entry
\* within the limit and an entry over it
Entries(ml) == {Blank, ShortEntry, OverLimit(ml)}
\* the lines of a source that also produces a line of whitespace
Lines == {Blank, Spaces, ShortEntry}

MaxLenChoices == {<<>>, <<5>>, <<13>>}

UserRule(name, regex) == [name |-> <<name>>, regex |-> regex, comment |-> None]

InitStores ==
    { <<>>,
      <<UserRule("u1", <<"x">>)>>,
      <<UserRule("u2", <<":">>)>>,
      <<UserRule("u2", <<"b">>), UserRule("u1", <<"x">>)>>,
      <<UserRule("u1", <<"x">>), UserRule("u3", <<"(">>)>> }

UserNames == {<<"n1">>, <<"u1">>}
UserPatterns == {<<"x">>, <<"(">>}

SuggestedPatterns == {<<>>, <<"b">>, <<"(">>}
SuggestedNames == {Absent, None, <<"n1">>}
Suggestions == {<<None, Absent>>} \cup (SuggestedPatterns \X SuggestedNames)
Failures == {"network", "unparsable", "missing_key"}

\* what the oracle does with one request
OracleOutcomes ==
    { [ok |-> TRUE, fail |-> "", is_anomaly |-> b,
       ignore_regex |-> sg[1], ignore_regex_name |-> sg[2]] :
         b \in BOOLEAN, sg \in Suggestions }
    \cup
    { [ok |-> FALSE, fail |-> f, is_anomaly |-> FALSE,
       ignore_regex |-> None, ignore_regex_name |-> Absent] : f \in Failures }

NoOracle ==
    [ok |-> FALSE, fail |-> "not_called", is_anomaly |-> FALSE,
     ignore_regex |-> None, ignore_regex_name |-> Absent]

NoSave == [requested |-> FALSE, ok |-> FALSE, rules |-> <<>>]

\* the processes that share one store: a live run, a batch run, a rule command
Procs == {"monitor", "analyze", "command"}

NoSaver == [by |-> "none", n |-> 0]

\* a rule command and the message it ends with
Report(op, name, regex, result) ==
    [op |-> op, name |-> name, regex |-> regex, result |-> result]

NoReport == Report("none", None, None, "none")

NoMessage == [entry |-> None, reason |-> Reason("none", "", None)]

ZeroStats ==
    [num_anomalies |-> 0, new_ignore_list_count |-> 0,
     ignored_log_count |-> 0, analysis_run_count |-> 0]

----------------------------------------------------------------------------
(* The learn step of analyze (lines 361-377) and monitor (lines 426-441) *)

\* a presence test that compares the rules' names with the new pattern
PatternPresent_byName(rules, p) == \E i \in 1..Len(rules) : rules[i].name = p

\* any(r.get('regex') == new_regex for r in rules)
PatternPresent(rules, p) == \E i \in 1..Len(rules) : rules[i].regex = p

\* the two conditions that guard the append
ShouldLearn(a, rules) ==
    Truthy(a.ignore_regex) /\ ~PatternPresent(rules, a.ignore_regex)

\* f"llm-suggested-{int(time.time())}"
FallbackName(t) == <<"llm-suggested-", t>>

\* analysis.get("ignore_regex_name", f"llm-suggested-{int(time.time())}")
BatchRuleName(a, t) ==
    IF a.ignore_regex_name = Absent THEN FallbackName(t) ELSE a.ignore_regex_name

\* f"Auto-suggested by LLM for log: {entry[:50]}..."
AutoComment(e) ==
    <<"Auto-suggested by LLM for log: ">> \o Slice(e, CommentPrefixLen) \o <<"...">>

NewRule(name, regex, e) == [name |-> name, regex |-> regex, comment |-> AutoComment(e)]

\* an insertion that overwrites the last rule of the list
AppendRule_replacing(rules, rule) ==
    IF rules = <<>> THEN <<rule>> ELSE [rules EXCEPT ![Len(rules)] = rule]

\* an insertion at the head of the list
AppendRule_front(rules, rule) == <<rule>> \o rules

\* ignore_list.append(new_rule)
AppendRule(rules, rule) == Append(rules, rule)

\* a save that adds the saver's rules to the rules of the file
SaveConfig_merge(rules, ok) ==
    IF ok
    THEN store \o SelectSeq(rules, LAMBDA r : \A i \in 1..Len(store) : store[i] # r)
    ELSE store

\* config.save_config(conf): the whole configuration replaces the file
SaveConfig(rules, ok) == IF ok THEN rules ELSE store

\* a learn step that lets the exception of save_config end the run
AfterSave_abort(ok) == IF ok THEN "loop" ELSE "crashed"

\* try: save_config(conf) ... except Exception as e: print(...): the loop goes
\* on whether the save succeeded or not (analyze 373-377, monitor 437-441)
AfterSave(ok) == "loop"

----------------------------------------------------------------------------
(* The state after construction *)

\* the state before the run, the slack url being set or not as channels says
InitConf(channels) ==
    /\ store \in InitStores
    /\ api_key \in BOOLEAN
    /\ model \in BOOLEAN
    /\ max_len \in MaxLenChoices
    /\ mode \in {"batch", "live"}
    /\ slack \in channels
    /\ pc = "start"
    /\ process = "none"
    /\ conf_ignore = <<>>
    /\ ignore_list = <<>>
    /\ clock = 0
    /\ steps = 0
    /\ cmds = 0
    /\ entry = Blank
    /\ outcome = "none"
    /\ oracle = NoOracle
    /\ submitted = None
    /\ analysis = NoAnalysis
    /\ learned = FALSE
    /\ saveReq = NoSave
    /\ alerted = FALSE
    /\ alert_msg = NoMessage
    /\ events = <<>>
    /\ alert_result = "none"
    /\ alerts = 0
    /\ alert_failures = 0
    /\ nonblank = 0
    /\ stats = ZeroStats
    /\ mem = [p \in Procs |-> <<>>]
    /\ ppc = [p \in Procs |-> "start"]
    /\ last = NoSaver
    /\ replaced = <<>>
    /\ report = NoReport

\* no alert channel is configured, as in DEFAULT_CONFIG
Init == InitConf({FALSE})

\* the llm is configured, with a limit both entries are classified under; the
\* rule list is empty, as in DEFAULT_CONFIG; the slack url is set or not
InitAlert ==
    InitConf(BOOLEAN) /\ api_key /\ model /\ max_len = <<13>> /\ store = <<>>

----------------------------------------------------------------------------
(* The run *)

\* what subprocess.Popen can do (monitor line 417): start journalctl, or raise
\* FileNotFoundError; analyze starts no such subprocess
PopenOutcomes(m) == IF m = "live" THEN BOOLEAN ELSE {FALSE}

\* a finally clause that leaves the subprocess alone
Finally_skipped(proc) == proc

\* finally: if process: process.terminate() (monitor lines 456-458)
Finally(proc) == IF proc = "running" THEN "terminated" ELSE proc

\* conf = config.load_config() (analyze line 304, monitor line 399), and in
\* monitor the start of the subprocess (line 417), whose failure ends the run
\* through the handler of line 450
LoadConfig ==
    /\ pc = "start"
    /\ UNCHANGED procVars
    /\ conf_ignore' = store
    /\ \E started \in PopenOutcomes(mode) :
          /\ process' = IF started THEN "running" ELSE "none"
          /\ pc' = IF mode = "batch" THEN "loaded"
                   ELSE IF started THEN "loop" ELSE "crashed"
    /\ UNCHANGED <<store, cfgVars, ignore_list, clock, steps, cmds, iterVars, alerts,
                   alert_failures, nonblank, stats>>

\* analyze returns before the loop: no entries, or the operator declines (lines 331-337)
Cancel ==
    /\ pc = "loaded"
    /\ UNCHANGED procVars
    /\ pc' = "done"
    /\ UNCHANGED <<store, cfgVars, conf_ignore, ignore_list, clock, steps, cmds,
                   iterVars, alerts,
                   alert_failures, nonblank, stats, process>>

\* ignore_list = config.load_config().get('ignore', []) (line 342)
ReloadIgnore ==
    /\ pc = "loaded"
    /\ UNCHANGED procVars
    /\ ignore_list' = store
    /\ pc' = "loop"
    /\ UNCHANGED <<store, cfgVars, conf_ignore, clock, steps, cmds, iterVars, alerts,
                   alert_failures, nonblank, stats, process>>

\* int(time.time()) read now, the last reading having been clock
Readings == clock..Min(clock + 1, MaxClock)

\* an alert that escalates everything
ShouldAlert_always(a) == TRUE

\* if analysis['is_anomaly'] (monitor line 443)
ShouldAlert(a) == a.is_anomaly

\* f"Anomaly detected: {entry}\nReason: {analysis.get('reason', '')}" (line 448)
AlertMessage(e, a) == [entry |-> e, reason |-> a.reason]

\* what requests.post can do: answer 200, answer another status, raise
PostOutcomes == {"ok", "http_error", "exception"}

\* a send_alert without its try/except
send_alert_unguarded(url, post) ==
    [raised |-> url /\ post = "exception",
     result |-> IF ~url THEN "no_channel"
                ELSE IF post = "ok" THEN "sent"
                ELSE IF post = "http_error" THEN "failed" ELSE "error"]

\* alert.send_alert (lines 6-24): what it prints, and whether it raises
send_alert(url, post) ==
    [raised |-> FALSE,
     result |-> IF ~url THEN "no_channel"
                ELSE IF post = "ok" THEN "sent"
                ELSE IF post = "http_error" THEN "failed" ELSE "error"]

\* the behaviours of the network for one iteration: none when send_alert is
\* not called or has no url to post to
PostsFor(a) == IF ShouldAlert(a) /\ slack THEN PostOutcomes ELSE {"not_called"}

\* the alert of the iteration, "none" when send_alert is not called
AlertOf(a, post) == IF ShouldAlert(a) THEN send_alert(slack, post).result ELSE "none"

\* the position after the alert: an exception out of send_alert would reach
\* the handler of line 453
AfterAlert(a, post, next) ==
    IF ShouldAlert(a) /\ send_alert(slack, post).raised THEN "crashed" ELSE next

\* the save of a learn step and the message that follows it: "New ignore rule
\* '{rule_name}' automatically added for regex: '{new_regex}'" after a save
\* that succeeded, "Failed to save new ignore rule: {e}" otherwise (analyze
\* 373-377, monitor 437-441)
LearnEvents(sv) ==
    IF ~sv.requested THEN <<>>
    ELSE IF sv.ok THEN <<"save", "announce">> ELSE <<"save", "save_failed">>

\* the prints and the saves of an iteration that got a verdict, in the order
\* of the statements: analyze echoes the verdict (line 358), learns, prints
\* the anomaly (380-382); monitor learns, prints the anomaly (444-446), alerts
IterationEvents(m, a, sv, al) ==
    (IF m = "batch" THEN <<"echo_verdict">> ELSE <<>>)
    \o LearnEvents(sv)
    \o (IF a.is_anomaly THEN <<"anomaly">> ELSE <<>>)
    \o (IF al # "none" THEN <<"alert">> ELSE <<>>)

\* what the last iteration left behind
Record(e, what, o, text, a, lrn, sv, al) ==
    /\ entry' = e
    /\ outcome' = what
    /\ oracle' = o
    /\ submitted' = text
    /\ analysis' = a
    /\ learned' = lrn
    /\ saveReq' = sv
    /\ alerted' = (al # "none")
    /\ alert_msg' = IF al # "none" THEN AlertMessage(e, a) ELSE NoMessage
    /\ events' = IF what = "classified" THEN IterationEvents(mode, a, sv, al) ELSE <<>>
    /\ alert_result' = al
    /\ alerts' = IF al # "none" THEN alerts + 1 ELSE alerts
    /\ alert_failures' = IF al \notin {"none", "sent"} THEN alert_failures + 1
                         ELSE alert_failures

\* an iteration that ends at a continue, or with an exception before the Gateway
NoVerdict(e, what) ==
    Record(e, what, NoOracle, None, NoAnalysis, FALSE, NoSave, "none")

\* analyze_log reaches the oracle call of line 50
OracleCalled(log_entry, key, mdl, ml) ==
    Configured(key, mdl) /\ ~(TooLong(log_entry, ml) /\ ml = <<>>)

\* the behaviours of the oracle for one entry: none when it is not called
OutcomesFor(e) ==
    IF OracleCalled(e, api_key, model, max_len) THEN OracleOutcomes ELSE {NoOracle}

\* one iteration of the loop of analyze (lines 346-382)
AnalyzeEntry(e) ==
    /\ pc = "loop"
    /\ UNCHANGED procVars
    /\ mode = "batch"
    /\ steps < MaxEntries
    /\ steps' = steps + 1
    /\ UNCHANGED <<cfgVars, cmds, process>>
    /\ nonblank' = IF e = Blank THEN nonblank ELSE nonblank + 1
    /\ IF e = Blank
       THEN /\ NoVerdict(e, "blank")
            /\ UNCHANGED <<store, pc, conf_ignore, ignore_list, clock, stats>>
       ELSE IF ScanRaises(ignore_list, e)
       THEN /\ NoVerdict(e, "precheck_raised")
            /\ pc' = "crashed"
            /\ UNCHANGED <<store, conf_ignore, ignore_list, clock, stats>>
       ELSE IF ScanMatch(ignore_list, e) # 0
       THEN /\ NoVerdict(e, "ignored")
            /\ stats' = [stats EXCEPT !.ignored_log_count = @ + 1]
            /\ UNCHANGED <<store, pc, conf_ignore, ignore_list, clock>>
       ELSE \E o \in OutcomesFor(e) :
            LET r == analyze_log(e, api_key, model, max_len, conf_ignore, o)
                a == r.analysis
            IN IF r.raised # ""
               THEN /\ Record(e, "raised", o, r.submitted, NoAnalysis, FALSE, NoSave, "none")
                    /\ pc' = "crashed"
                    /\ UNCHANGED <<store, conf_ignore, ignore_list, clock, stats>>
               ELSE /\ stats' = [stats EXCEPT
                          !.analysis_run_count = @ + 1,
                          !.new_ignore_list_count =
                              IF ShouldLearn(a, ignore_list) THEN @ + 1 ELSE @,
                          !.num_anomalies = IF a.is_anomaly THEN @ + 1 ELSE @]
                    /\ IF ShouldLearn(a, ignore_list)
                       THEN \E now \in Readings, saveOk \in BOOLEAN :
                            LET rules == AppendRule(ignore_list,
                                    NewRule(BatchRuleName(a, now), a.ignore_regex, e))
                            IN /\ clock' = now
                               /\ pc' = AfterSave(saveOk)
                               /\ ignore_list' = rules
                               /\ conf_ignore' = rules
                               /\ store' = SaveConfig(rules, saveOk)
                               /\ Record(e, "classified", o, r.submitted, a, TRUE,
                                     [requested |-> TRUE, ok |-> saveOk, rules |-> rules],
                                     "none")
                       ELSE /\ Record(e, "classified", o, r.submitted, a, FALSE,
                                  NoSave, "none")
                            /\ UNCHANGED <<store, pc, conf_ignore, ignore_list, clock>>

\* one iteration of the loop of monitor (lines 419-448), on a line of the
\* subprocess: entry = line.strip()
MonitorEntry(line) ==
    LET e == Strip(line) IN
    /\ pc = "loop"
    /\ UNCHANGED procVars
    /\ mode = "live"
    /\ steps < MaxEntries
    /\ steps' = steps + 1
    /\ UNCHANGED <<cfgVars, cmds, ignore_list, nonblank, stats>>
    /\ IF e = Blank
       THEN /\ NoVerdict(line, "blank")
            /\ UNCHANGED <<store, pc, conf_ignore, clock>>
       ELSE \E o \in OutcomesFor(e) :
            LET r == analyze_log(e, api_key, model, max_len, conf_ignore, o)
                a == r.analysis
            IN IF r.raised # ""
               THEN /\ Record(e, "raised", o, r.submitted, NoAnalysis, FALSE, NoSave, "none")
                    /\ pc' = "crashed"
                    /\ UNCHANGED <<store, conf_ignore, clock>>
               ELSE \E post \in PostsFor(a) :
                    IF ShouldLearn(a, conf_ignore)
                    THEN \E now \in Readings, saveOk \in BOOLEAN :
                         LET rules == AppendRule(conf_ignore,
                                 NewRule(FallbackName(now), a.ignore_regex, e))
                         IN /\ clock' = now
                            /\ pc' = AfterAlert(a, post, AfterSave(saveOk))
                            /\ conf_ignore' = rules
                            /\ store' = SaveConfig(rules, saveOk)
                            /\ Record(e, "classified", o, r.submitted, a, TRUE,
                                  [requested |-> TRUE, ok |-> saveOk, rules |-> rules],
                                  AlertOf(a, post))
                    ELSE /\ pc' = AfterAlert(a, post, pc)
                         /\ Record(e, "classified", o, r.submitted, a, FALSE,
                               NoSave, AlertOf(a, post))
                         /\ UNCHANGED <<store, conf_ignore, clock>>
    /\ process' = IF pc' = "loop" THEN process ELSE Finally(process)

\* the loop is left without an error: the source is exhausted (readline
\* returns ''), or the run is interrupted from outside (KeyboardInterrupt);
\* either way the finally clause runs
Finish ==
    /\ pc = "loop"
    /\ UNCHANGED procVars
    /\ pc' = "done"
    /\ process' = Finally(process)
    /\ UNCHANGED <<store, cfgVars, conf_ignore, ignore_list, clock, steps, cmds,
                   iterVars, alerts, alert_failures, nonblank, stats>>

----------------------------------------------------------------------------
(* The user's rule commands, each a process of its own *)

\* an add command that never finds the name
NameTaken_never(rules, name) == FALSE

\* any(r['name'] == name for r in conf['ignore']) (line 181)
NameTaken(rules, name) == \E i \in 1..Len(rules) : rules[i].name = name

\* new_rule = {'name': name, 'regex': regex}; conf['ignore'].append(new_rule)
\* (lines 184-187), with no --comment
AddRule(rules, name, regex) ==
    Append(rules, [name |-> name, regex |-> regex, comment |-> None])

\* a filter with the comparison inverted
DeleteRule_inverted(rules, name) == SelectSeq(rules, LAMBDA r : r.name = name)

\* [r for r in conf.get('ignore', []) if r['name'] != name] (line 197)
DeleteRule(rules, name) == SelectSeq(rules, LAMBDA r : r.name # name)

\* ignore add NAME REGEX (lines 174-189)
ignore_add(name, regex) ==
    /\ cmds < MaxCmds
    /\ UNCHANGED procVars
    /\ cmds' = cmds + 1
    /\ store' = IF NameTaken(store, name) THEN store ELSE AddRule(store, name, regex)
    /\ UNCHANGED <<cfgVars, pc, conf_ignore, ignore_list, clock, steps, iterVars, alerts,
                   alert_failures, nonblank, stats, process>>

\* ignore delete NAME (lines 191-203)
ignore_delete(name) ==
    /\ cmds < MaxCmds
    /\ UNCHANGED procVars
    /\ cmds' = cmds + 1
    /\ store' = DeleteRule(store, name)
    /\ UNCHANGED <<cfgVars, pc, conf_ignore, ignore_list, clock, steps, iterVars, alerts,
                   alert_failures, nonblank, stats, process>>

\* ignore delete-all --yes (lines 205-216)
ignore_delete_all ==
    /\ cmds < MaxCmds
    /\ UNCHANGED procVars
    /\ cmds' = cmds + 1
    /\ store' = <<>>
    /\ UNCHANGED <<cfgVars, pc, conf_ignore, ignore_list, clock, steps, iterVars, alerts,
                   alert_failures, nonblank, stats, process>>

----------------------------------------------------------------------------

\* one run of analyze or monitor on a store nobody else touches
Next ==
    \/ LoadConfig
    \/ Cancel
    \/ ReloadIgnore
    \/ \E e \in Entries(max_len) : AnalyzeEntry(e)
    \/ \E e \in Entries(max_len) : MonitorEntry(e)
    \/ Finish

Spec == Init /\ [][Next]_vars

\* the run, and the user's rule commands at any moment of it
NextCommands ==
    \/ Next
    \/ \E n \in UserNames, p \in UserPatterns : ignore_add(n, p)
    \/ \E n \in UserNames : ignore_delete(n)
    \/ ignore_delete_all

SpecCommands == Init /\ [][NextCommands]_vars

\* the run on a source that produces lines of whitespace
NextBlank ==
    \/ LoadConfig
    \/ Cancel
    \/ ReloadIgnore
    \/ \E e \in Lines : AnalyzeEntry(e)
    \/ \E e \in Lines : MonitorEntry(e)
    \/ Finish

\* no limit on the length is set
InitBlank == Init /\ max_len = <<>>

SpecBlank == InitBlank /\ [][NextBlank]_vars

\* one run whose alerts go to slack, or nowhere
SpecAlert == InitAlert /\ [][Next]_vars

----------------------------------------------------------------------------
(* Processes that share the store: a live run, a batch run and a rule command,
   each between its load_config and its save_config *)

Runs == {"monitor", "analyze"}

\* the variables of the single run, which does not take part here
runVars == <<cfgVars, pc, process, conf_ignore, ignore_list, clock, steps, iterVars,
             alerts, alert_failures, nonblank, stats>>

\* the result of a save_config by process p
Saved(p, rules, ok) ==
    /\ store' = SaveConfig(rules, ok)
    /\ last' = IF ok THEN [by |-> p, n |-> last.n + 1] ELSE last
    /\ replaced' = IF ok THEN store ELSE replaced

\* config.load_config() of monitor (line 399), of analyze (line 342) and of
\* the rule commands (lines 180, 195, 212)
ProcLoadBounded(p, bound) ==
    /\ ppc[p] = "start"
    /\ p = "command" => cmds < bound
    /\ mem' = [mem EXCEPT ![p] = store]
    /\ ppc' = [ppc EXCEPT ![p] = "loaded"]
    /\ UNCHANGED <<store, cmds, last, replaced, report, runVars>>

ProcLoad(p) == ProcLoadBounded(p, MaxCmds)

\* the learn step of a run (analyze 361-377, monitor 427-441): the oracle
\* suggests pattern pat for ShortEntry
ProcLearn(p, pat, ok) ==
    /\ p \in Runs
    /\ ppc[p] = "loaded"
    /\ ShouldLearn([NoAnalysis EXCEPT !.ignore_regex = pat], mem[p])
    /\ LET rules == AppendRule(mem[p], NewRule(FallbackName(clock), pat, ShortEntry))
       IN /\ mem' = [mem EXCEPT ![p] = rules]
          /\ Saved(p, rules, ok)
    /\ UNCHANGED <<cmds, ppc, report, runVars>>

\* the change and the save of ignore add, which aborts on a name that is
\* taken (lines 181-188)
ProcAdd(name, regex, ok) ==
    /\ ppc["command"] = "loaded"
    /\ cmds' = cmds + 1
    /\ ppc' = [ppc EXCEPT !["command"] = "start"]
    /\ IF NameTaken(mem["command"], name)
       THEN /\ report' = Report("add", name, regex, "already_exists")
            /\ UNCHANGED <<store, mem, last, replaced>>
       ELSE LET rules == AddRule(mem["command"], name, regex)
            IN /\ mem' = [mem EXCEPT !["command"] = rules]
               /\ Saved("command", rules, ok)
               /\ report' = Report("add", name, regex,
                                   IF ok THEN "added" ELSE "save_raised")
    /\ UNCHANGED runVars

\* the change and the save of ignore delete (lines 197-199)
ProcDelete(name, ok) ==
    /\ ppc["command"] = "loaded"
    /\ cmds' = cmds + 1
    /\ ppc' = [ppc EXCEPT !["command"] = "start"]
    /\ LET rules == DeleteRule(mem["command"], name)
       IN /\ mem' = [mem EXCEPT !["command"] = rules]
          /\ Saved("command", rules, ok)
          /\ report' = Report("delete", name, None,
                              IF ~ok THEN "save_raised"
                              ELSE IF Len(rules) = Len(mem["command"]) THEN "not_found"
                              ELSE "deleted")
    /\ UNCHANGED runVars

\* the change and the save of ignore delete-all (lines 213-214)
ProcDeleteAll(ok) ==
    /\ ppc["command"] = "loaded"
    /\ cmds' = cmds + 1
    /\ ppc' = [ppc EXCEPT !["command"] = "start"]
    /\ mem' = [mem EXCEPT !["command"] = <<>>]
    /\ Saved("command", <<>>, ok)
    /\ report' = Report("delete-all", None, None,
                        IF ok THEN "all_deleted" ELSE "save_raised")
    /\ UNCHANGED runVars

\* the llm is configured and the run of the other actions never starts
InitShared == Init /\ api_key /\ model /\ max_len = <<>> /\ mode = "live"

NextShared ==
    \/ \E p \in Procs : ProcLoad(p)
    \/ \E p \in Runs, pat \in SuggestedPatterns, ok \in BOOLEAN : ProcLearn(p, pat, ok)
    \/ \E n \in UserNames, r \in UserPatterns, ok \in BOOLEAN : ProcAdd(n, r, ok)
    \/ \E n \in UserNames, ok \in BOOLEAN : ProcDelete(n, ok)
    \/ \E ok \in BOOLEAN : ProcDeleteAll(ok)

\* a live run, a batch run and rule commands interleaved on one store
SpecShared == InitShared /\ [][NextShared]_vars

\* the rule commands alone, one after the other
NextRules ==
    \/ ProcLoadBounded("command", MaxRuleCmds)
    \/ \E n \in UserNames, r \in UserPatterns, ok \in BOOLEAN : ProcAdd(n, r, ok)
    \/ \E n \in UserNames, ok \in BOOLEAN : ProcDelete(n, ok)
    \/ \E ok \in BOOLEAN : ProcDeleteAll(ok)

SpecRules == InitShared /\ [][NextRules]_vars

TypeOK ==
    /\ pc \in {"start", "loaded", "loop", "done", "crashed"}
    /\ process \in {"none", "running", "terminated"}
    /\ steps \in 0..MaxEntries
    /\ outcome \in {"none", "blank", "ignored", "classified", "raised", "precheck_raised"}

----------------------------------------------------------------------------
(* Vocabulary of the properties *)

\* the RuleSet of the run: the list the loop matches against and appends to
RuleSet == IF mode = "batch" THEN ignore_list ELSE conf_ignore

\* the step is one iteration of the loop, on entry'
Iteration == steps' = steps + 1

\* rule r matches the raw text e
RuleMatches(r, e) == Compiles(r.regex) /\ Search(r.regex, e)

\* some rule of the list matches the raw text e
SomeRuleMatches(rules, e) == \E i \in 1..Len(rules) : RuleMatches(rules[i], e)

\* the first rule of the list, in stored order, that matches the raw text e
FirstMatching(rules, e) ==
    rules[CHOOSE i \in 1..Len(rules) :
            /\ RuleMatches(rules[i], e)
            /\ \A j \in 1..(i - 1) : ~RuleMatches(rules[j], e)]

\* the oracle was called in the last iteration
Called == oracle.fail # "not_called"

\* s ends with t
EndsWith(s, t) ==
    Len(s) >= Len(t) /\ SubSeq(s, Len(s) - Len(t) + 1, Len(s)) = t

\* no two rules of the list share a name
NamesUnique(rules) ==
    \A i, j \in 1..Len(rules) : rules[i].name = rules[j].name => i = j

\* the rules of the list whose pattern is p
WithPattern(rules, p) == {i \in 1..Len(rules) : rules[i].regex = p}

----------------------------------------------------------------------------
(* C1 .. C10 *)

\* C1: in batch and in live mode, an entry that some rule of the current
\* RuleSet matches (unanchored search on the raw entry text) ends
\* non-anomalous, suppressed by the pre-check or with a verdict whose reason
\* names the first matching rule in stored order, whatever the oracle did.
C1_MatchedEntryIsSuppressed ==
    [][ (/\ Iteration
         /\ outcome' \in {"ignored", "classified"}
         /\ SomeRuleMatches(RuleSet, entry'))
        => \/ outcome' = "ignored"
           \/ /\ analysis'.is_anomaly = FALSE
              /\ analysis'.reason =
                     Reason("override", "", FirstMatching(RuleSet, entry').name) ]_vars

\* C2: analyze_log never raises: every entry handed to it comes back with a
\* verdict, for every entry length, configuration and rule list.
C2_GatewayNeverRaises == outcome # "raised"

\* C3: whenever the oracle call fails and no rule matches the entry, the
\* verdict is anomalous, its reason carries the failure detail, its suggested
\* pattern is null, and the entry adds no rule.
C3_OracleFailureIsAnomalous ==
    [][ (/\ Iteration
         /\ outcome' = "classified"
         /\ oracle'.fail \in Failures
         /\ ~SomeRuleMatches(RuleSet, entry'))
        => /\ analysis'.is_anomaly = TRUE
           /\ analysis'.reason = Reason("error", oracle'.fail, None)
           /\ analysis'.ignore_regex = None
           /\ ~learned'
           /\ RuleSet' = RuleSet
           /\ store' = store ]_vars

\* C4: with credentials absent or incomplete no oracle call is made, the
\* verdict is the fixed "not configured" one, and the run escalates no entry
\* and learns no rule.
C4_UnconfiguredIsInert ==
    ~(api_key /\ model)
    => /\ ~Called
       /\ submitted = None
       /\ outcome \notin {"raised"}
       /\ outcome = "classified" =>
             /\ analysis.is_anomaly = FALSE
             /\ analysis.reason = Reason("not_configured", "", None)
             /\ analysis.ignore_regex = None
       /\ ~alerted
       /\ ~learned
       /\ ~saveReq.requested
       /\ stats.num_anomalies = 0
       /\ stats.new_ignore_list_count = 0
       /\ pc # "start" => conf_ignore = store
       /\ ignore_list \in {<<>>, store}

\* an unconfigured run has classified an entry
C4_Witness ==
    /\ ~(api_key /\ model)
    /\ (api_key \/ model)
    /\ outcome = "classified"
    /\ entry = OverLimit(max_len)
    /\ steps = 2

\* C5: with max_length configured, an entry longer than max_length is
\* submitted as a text of length exactly max_length that ends with the
\* truncation marker, an entry of length at most max_length unchanged.
C5_SubmittedLength ==
    (Called /\ max_len # <<>>)
    => IF Len(entry) > max_len[1]
       THEN Len(submitted) = max_len[1] /\ EndsWith(submitted, TRUNCATED)
       ELSE submitted = entry

\* C6 as stated: whenever Phase B overrides the verdict, the suggested
\* pattern is discarded and the RuleSet, in memory and persisted, is unchanged.
C6_OverrideMeansNoLearning ==
    [][ (Iteration /\ analysis'.reason.kind = "override")
        => /\ ~learned'
           /\ RuleSet' = RuleSet
           /\ store' = store ]_vars

\* C6 as amended: the override forces is_anomaly to false and replaces the
\* reason but keeps the oracle's suggested pattern; the learn step appends a
\* rule with that pattern and submits the RuleSet for persistence exactly
\* when the pattern is non-empty and no rule has it yet, and leaves the
\* RuleSet and the store unchanged otherwise.
C6_OverrideKeepsSuggestion ==
    [][ (Iteration /\ analysis'.reason.kind = "override")
        => /\ analysis'.is_anomaly = FALSE
           /\ analysis'.ignore_regex = oracle'.ignore_regex
           /\ learned' <=> /\ oracle'.ignore_regex \notin {None, <<>>}
                           /\ WithPattern(RuleSet, oracle'.ignore_regex) = {}
           /\ learned' =>
                 /\ Len(RuleSet') = Len(RuleSet) + 1
                 /\ SubSeq(RuleSet', 1, Len(RuleSet)) = RuleSet
                 /\ RuleSet'[Len(RuleSet')].regex = oracle'.ignore_regex
                 /\ saveReq'.requested /\ saveReq'.rules = RuleSet'
           /\ ~learned' =>
                 /\ RuleSet' = RuleSet
                 /\ store' = store
                 /\ ~saveReq'.requested ]_vars

\* an overridden verdict whose suggested pattern was learned
C6_Witness ==
    /\ analysis.reason.kind = "override"
    /\ analysis.ignore_regex = <<"b">>
    /\ learned
    /\ RuleSet[Len(RuleSet)].regex = <<"b">>

\* C7 as stated: a verdict with a non-null suggested pattern that no rule
\* has yet, not overridden by Phase B, makes the RuleSet grow by exactly one
\* rule, appended last, with that pattern, and the whole RuleSet is then
\* submitted for persistence.
C7_NonNullSuggestionIsLearned ==
    [][ (/\ Iteration
         /\ outcome' = "classified"
         /\ analysis'.reason.kind # "override"
         /\ analysis'.ignore_regex # None
         /\ WithPattern(RuleSet, analysis'.ignore_regex) = {})
        => /\ Len(RuleSet') = Len(RuleSet) + 1
           /\ SubSeq(RuleSet', 1, Len(RuleSet)) = RuleSet
           /\ RuleSet'[Len(RuleSet')].regex = analysis'.ignore_regex
           /\ saveReq'.requested /\ saveReq'.rules = RuleSet' ]_vars

\* C7 as amended: the same for a suggested pattern that is neither null nor
\* the empty string.
C7_NonEmptySuggestionIsLearned ==
    [][ (/\ Iteration
         /\ outcome' = "classified"
         /\ analysis'.reason.kind # "override"
         /\ analysis'.ignore_regex \notin {None, <<>>}
         /\ WithPattern(RuleSet, analysis'.ignore_regex) = {})
        => /\ Len(RuleSet') = Len(RuleSet) + 1
           /\ SubSeq(RuleSet', 1, Len(RuleSet)) = RuleSet
           /\ RuleSet'[Len(RuleSet')].regex = analysis'.ignore_regex
           /\ saveReq'.requested /\ saveReq'.rules = RuleSet' ]_vars

\* a rule was learned, after the rules already there, from a verdict that
\* was not overridden
C7_Witness ==
    /\ outcome = "classified"
    /\ analysis.reason.kind = "llm"
    /\ learned
    /\ Len(RuleSet) >= 2
    /\ RuleSet[Len(RuleSet)].regex = analysis.ignore_regex
    /\ saveReq.rules = RuleSet

\* C8: after any sequence of user add/delete commands and learn steps, no
\* two rules share a name, in the RuleSet of the run or in the store.
C8_NamesUnique ==
    /\ NamesUnique(store)
    /\ NamesUnique(conf_ignore)
    /\ NamesUnique(ignore_list)

\* C9: the learn step never adds a rule whose pattern equals the pattern of
\* a rule already in the RuleSet: the number of rules with a given pattern
\* grows only from zero, and then to one.
C9_NoDuplicatePattern ==
    [][ Iteration =>
          \A p \in SuggestedPatterns :
             Cardinality(WithPattern(RuleSet', p)) > Cardinality(WithPattern(RuleSet, p))
             => /\ WithPattern(RuleSet, p) = {}
                /\ Cardinality(WithPattern(RuleSet', p)) = 1 ]_vars

\* the entry a rule was learned from is classified again with the same
\* suggestion, and the RuleSet still has one rule with that pattern
C9_Witness ==
    /\ steps >= 2
    /\ outcome = "classified"
    /\ analysis.ignore_regex = <<"b">>
    /\ ~learned
    /\ \E i \in 1..Len(RuleSet) :
          /\ RuleSet[i].regex = <<"b">>
          /\ RuleSet[i].comment = AutoComment(entry)
    /\ Cardinality(WithPattern(RuleSet, <<"b">>)) = 1

\* rule r was learned from entry e and matches it
LearnedFrom(r, e) == r.comment = AutoComment(e) /\ RuleMatches(r, e)

\* C10 as stated: once a rule has been learned from an entry and matches it,
\* every later occurrence of the entry in the run is suppressed: it is not
\* submitted to the oracle again and its outcome is non-anomalous.
C10_LearnedEntryNotReclassified ==
    [][ (/\ Iteration
         /\ \E i \in 1..Len(RuleSet) : LearnedFrom(RuleSet[i], entry'))
        => /\ oracle' = NoOracle
           /\ outcome' \in {"ignored", "classified"}
           /\ analysis'.is_anomaly = FALSE ]_vars

\* C10 as amended: in batch mode, once a rule has been learned from an entry
\* and matches it, every later occurrence of the entry in the run is
\* suppressed by the pre-check: it is not submitted to the oracle and is not
\* counted as classified or as an anomaly.
C10_BatchLearnedEntryIsIgnored ==
    [][ (/\ Iteration
         /\ mode = "batch"
         /\ \E i \in 1..Len(ignore_list) : LearnedFrom(ignore_list[i], entry'))
        => /\ outcome' = "ignored"
           /\ oracle' = NoOracle
           /\ submitted' = None
           /\ stats'.ignored_log_count = stats.ignored_log_count + 1
           /\ stats'.analysis_run_count = stats.analysis_run_count
           /\ stats'.num_anomalies = stats.num_anomalies
           /\ ignore_list' = ignore_list ]_vars

\* the second occurrence of an entry a rule was learned from is ignored
C10_Witness ==
    /\ mode = "batch"
    /\ steps = 2
    /\ outcome = "ignored"
    /\ stats.new_ignore_list_count = 1
    /\ \E i \in 1..Len(ignore_list) : LearnedFrom(ignore_list[i], entry)

\* the last iteration ended with a final verdict that is anomalous
AnomalousVerdict == outcome = "classified" /\ analysis.is_anomaly

\* C11 as stated: in every run, batch or live, send_alert is called for
\* exactly the entries whose final verdict is anomalous, once for each, with a
\* message that holds the entry and the reason.
C11_AlertIffAnomalous ==
    [][ Iteration
        => /\ alerted' <=> AnomalousVerdict'
           /\ alerts' = IF AnomalousVerdict' THEN alerts + 1 ELSE alerts
           /\ AnomalousVerdict'
                => alert_msg' = [entry |-> entry', reason |-> analysis'.reason] ]_vars

\* C11 as amended: in a live run send_alert is called for exactly the entries
\* whose final verdict is anomalous, once for each, with a message that holds
\* the entry and the reason; a batch run never calls send_alert.
C11_LiveAlertIffAnomalous ==
    [][ Iteration
        => /\ mode = "live"
                => /\ alerted' <=> AnomalousVerdict'
                   /\ alerts' = IF AnomalousVerdict' THEN alerts + 1 ELSE alerts
                   /\ AnomalousVerdict'
                        => alert_msg' = [entry |-> entry', reason |-> analysis'.reason]
           /\ mode = "batch"
                => /\ ~alerted'
                   /\ alerts' = 0
                   /\ alert_msg' = NoMessage ]_vars

\* a live run has escalated one of two entries, the other one's final verdict
\* being an override by a rule
C11_Witness ==
    /\ mode = "live"
    /\ steps = 2
    /\ alerts = 1
    /\ outcome = "classified"
    /\ ~alerted
    /\ analysis.reason.kind = "override"

\* C12: in a batch run every non-blank entry is handled in exactly one of two
\* ways: matched by a rule of the current RuleSet, it is counted as suppressed
\* and the oracle is not called; otherwise it is classified exactly once. After
\* each entry, and so at the end of the run, suppressed plus classified is the
\* number of non-blank entries, and the anomalies are at most the classified.
C12_BatchAccounting ==
    [][ (Iteration /\ mode = "batch" /\ nonblank' = nonblank + 1)
        => /\ \/ /\ SomeRuleMatches(ignore_list, entry')
                 /\ outcome' = "ignored"
                 /\ oracle' = NoOracle
                 /\ stats'.ignored_log_count = stats.ignored_log_count + 1
                 /\ stats'.analysis_run_count = stats.analysis_run_count
              \/ /\ ~SomeRuleMatches(ignore_list, entry')
                 /\ outcome' = "classified"
                 /\ stats'.ignored_log_count = stats.ignored_log_count
                 /\ stats'.analysis_run_count = stats.analysis_run_count + 1
           /\ stats'.ignored_log_count + stats'.analysis_run_count = nonblank'
           /\ stats'.num_anomalies <= stats'.analysis_run_count ]_vars

\* C13: a save that fails in the learn step does not end the run and is not
\* rolled back: the loop goes on, the new rule is in the in-memory RuleSet
\* while the store is left as it was, and the rule stays in the RuleSet, at
\* its place, for every later entry.
C13_SaveFailureIsSurvived ==
    [][ /\ (Iteration /\ saveReq'.requested /\ ~saveReq'.ok)
            => /\ pc' = "loop"
               /\ learned'
               /\ Len(RuleSet') = Len(RuleSet) + 1
               /\ RuleSet'[Len(RuleSet')].regex = analysis'.ignore_regex
               /\ store' = store
        /\ (pc = "loop")
            => /\ Len(RuleSet') >= Len(RuleSet)
               /\ \A i \in 1..Len(RuleSet) : RuleSet'[i] = RuleSet[i] ]_vars

\* after a failed save the batch run has gone on, and the rule that is only in
\* memory has suppressed the next entry
C13_Witness ==
    /\ mode = "batch"
    /\ pc = "loop"
    /\ steps = 2
    /\ outcome = "ignored"
    /\ \E i \in 1..Len(ignore_list) :
          /\ LearnedFrom(ignore_list[i], entry)
          /\ \A j \in 1..Len(store) : store[j] # ignore_list[i]
          /\ \A j \in 1..(i - 1) : ~RuleMatches(ignore_list[j], entry)

\* the list holds a rule that was loaded from the store (the rules learned in
\* the run carry a comment) and whose pattern does not compile
MalformedLoaded(rules) ==
    \E i \in 1..Len(rules) : rules[i].comment = None /\ ~Compiles(rules[i].regex)

\* C14: a run started on a store that holds a rule whose pattern does not
\* compile fails closed: whatever the place of the rule and whatever the
\* entries, no entry is suppressed, classified or escalated, no rule is
\* learned and nothing is saved.
C14_MalformedStoreFailsClosed ==
    [][ (Iteration /\ MalformedLoaded(RuleSet))
        => /\ outcome' \notin {"ignored", "classified"}
           /\ ~learned'
           /\ ~alerted'
           /\ ~saveReq'.requested
           /\ store' = store ]_vars

\* every pattern of the list compiles
AllCompile(rules) == \A i \in 1..Len(rules) : Compiles(rules[i].regex)

\* C15: every rule of the RuleSet has a pattern that compiles: no step, of the
\* user's add command or of a learn step, puts a rule whose pattern does not
\* compile into a list, in memory or in the store, whose patterns all compile.
C15_PatternsCompile ==
    [][ (AllCompile(store) /\ AllCompile(conf_ignore) /\ AllCompile(ignore_list))
        => (AllCompile(store') /\ AllCompile(conf_ignore') /\ AllCompile(ignore_list')) ]_vars

\* the set of the rules of a list
RulesOf(rules) == {rules[i] : i \in 1..Len(rules)}

\* C16: the store is last-writer-wins, with no merging: for any interleaving of
\* a live run, a batch run and rule commands, the rule list in the store
\* after a save that succeeded is the list the saving process holds in memory.
C16_LastWriterWins ==
    [][ last'.n = last.n + 1 => store' = mem'[last'.by] ]_vars

\* the batch run saved last, and its save removed from the store a rule that
\* the live run had saved after the batch run loaded
C16_Witness ==
    /\ last.by = "analyze"
    /\ store = mem["analyze"]
    /\ \E r \in RulesOf(replaced) :
          /\ r \in RulesOf(mem["monitor"])
          /\ r \notin RulesOf(store)

\* C17: a notification that fails (another status than 200, an exception
\* while sending, no channel configured) does not raise into the live loop:
\* the iteration ends in the loop, with the failure printed, and the store and
\* the RuleSet are those the learn step left.
C17_AlertFailureIsSurvived ==
    [][ (Iteration /\ mode = "live" /\ alerted')
        => /\ pc' = "loop"
           /\ outcome' = "classified"
           /\ alert_result' \in {"sent", "failed", "error", "no_channel"}
           /\ alert_result' = "no_channel" <=> ~slack
           /\ alert_failures' = IF alert_result' = "sent" THEN alert_failures
                                 ELSE alert_failures + 1 ]_vars

\* the notification of the first entry failed, and the second entry has been
\* classified and escalated all the same, its post raising an exception
C17_Witness ==
    /\ mode = "live"
    /\ slack
    /\ pc = "loop"
    /\ steps = 2
    /\ alerts = 2
    /\ alert_failures = 2
    /\ alerted
    /\ alert_result = "error"

\* the run is over
Ended == pc \in {"done", "crashed"}

\* C18: once monitor's subprocess has been started, every way the live loop
\* ends (the source exhausted, a stop request, an error while an entry is
\* processed) leaves the subprocess terminated, and no entry is processed
\* after the loop is left.
C18_LoopExitTerminatesSource ==
    [][ /\ (mode = "live" /\ process = "running" /\ pc' # "loop")
            => process' = "terminated"
        /\ (mode = "live" /\ process' = "running") => pc' = "loop"
        /\ Ended => (~Iteration /\ pc' = pc /\ process' = process) ]_vars

\* the live loop was ended by an error while the second entry was processed,
\* and the subprocess is terminated
C18_Witness ==
    /\ mode = "live"
    /\ pc = "crashed"
    /\ steps = 2
    /\ outcome = "raised"
    /\ process = "terminated"

\* C19: every learned rule is announced, with its pattern and its name,
\* before it is saved: the announcement precedes the save, and it is made
\* whether the save succeeds or not.
C19_AnnouncedBeforeSaved ==
    [][ (Iteration /\ learned')
        => \E i, j \in 1..Len(events') :
              /\ i < j
              /\ events'[i] = "announce"
              /\ events'[j] = "save" ]_vars

\* the text is empty or made of whitespace only
IsBlank(e) == \A i \in 1..Len(e) : IsSpace(e[i])

\* C20: an entry that is empty or whitespace-only is skipped, in both modes:
\* it is not matched, not submitted to the oracle, not escalated, it triggers
\* no learning and changes no counter.
C20_BlankIsSkipped ==
    [][ (Iteration /\ IsBlank(entry'))
        => /\ outcome' = "blank"
           /\ oracle' = NoOracle
           /\ submitted' = None
           /\ ~learned'
           /\ ~alerted'
           /\ stats' = stats
           /\ store' = store
           /\ conf_ignore' = conf_ignore
           /\ ignore_list' = ignore_list ]_vars

\* the step is the end of a rule command of the command process
CommandEnds(op) == cmds' = cmds + 1 /\ report'.op = op

\* C21: ignore add with a name that is already present fails with the error
\* "already exists" and leaves the RuleSet, in memory and in the store, as it
\* was; with a new name it appends the rule last, whether or not its pattern
\* is the pattern of a rule already there, and the store is the new list
\* unless the save itself raises.
C21_AddRejectsDuplicateName ==
    [][ CommandEnds("add")
        => LET rules == mem["command"]
               new == [name |-> report'.name, regex |-> report'.regex, comment |-> None]
           IN IF \E i \in 1..Len(rules) : rules[i].name = report'.name
              THEN /\ report'.result = "already_exists"
                   /\ mem' = mem
                   /\ store' = store
              ELSE /\ report'.result \in {"added", "save_raised"}
                   /\ mem'["command"] = rules \o <<new>>
                   /\ store' = IF report'.result = "added" THEN rules \o <<new>>
                               ELSE store ]_vars

\* the rule n1 was added last although an earlier rule has its pattern, and a
\* second add of n1 has been refused
C21_Witness ==
    /\ report = Report("add", <<"n1">>, report.regex, "already_exists")
    /\ Len(store) >= 2
    /\ store[Len(store)].name = <<"n1">>
    /\ \E i \in 1..(Len(store) - 1) : store[i].regex = store[Len(store)].regex

\* the list without the rules of the given name, the others in their order
RECURSIVE Remaining(_, _)
Remaining(rules, name) ==
    IF rules = <<>> THEN <<>>
    ELSE IF Head(rules).name = name THEN Remaining(Tail(rules), name)
    ELSE <<Head(rules)>> \o Remaining(Tail(rules), name)

\* C22: ignore delete is idempotent: a rule of the name is removed and the
\* removal reported, the other rules keeping their content and order; with no
\* rule of the name the RuleSet is unchanged and "not found" is reported,
\* without error; a second removal of the name would change nothing more.
C22_DeleteIsIdempotent ==
    [][ CommandEnds("delete")
        => LET rules == mem["command"]
               left == mem'["command"]
               present == \E i \in 1..Len(rules) : rules[i].name = report'.name
           IN /\ left = Remaining(rules, report'.name)
              /\ ~present => left = rules
              /\ Remaining(left, report'.name) = left
              /\ report'.result \in {"deleted", "not_found", "save_raised"}
              /\ report'.result = "deleted" => (present /\ store' = left)
              /\ report'.result = "not_found" => (~present /\ store' = left)
              /\ report'.result = "save_raised" => store' = store ]_vars

\* u1 has been deleted from the store [u1, u3], and a second delete of u1 has
\* reported "not found" and left the store as the first one made it
C22_Witness ==
    /\ cmds = 2
    /\ report = Report("delete", <<"u1">>, None, "not_found")
    /\ store = <<UserRule("u3", <<"(">>)>>

\* C23: in both modes a learned rule is named with the name the oracle
\* suggests when the verdict has one that is not null, and with the
\* time-derived fallback only when it has none; its name is never null.
C23_LearnedRuleName ==
    [][ (Iteration /\ learned')
        => LET rule == RuleSet'[Len(RuleSet')]
               suggested == analysis'.ignore_regex_name
           IN /\ rule.name # None
              /\ rule.name = IF suggested \notin {Absent, None} THEN suggested
                             ELSE FallbackName(clock') ]_vars

\* C24: during a run the RuleSet only grows by appending: a step of the loop
\* keeps every rule, with its name, pattern and comment, at its place, and
\* adds at most one rule at the end; in a batch run the size of the RuleSet
\* less the count of rules learned stays what it was when the loop started,
\* so at the end the size is the initial size plus the reported count.
C24_RuleSetOnlyGrows ==
    [][ /\ (pc = "loop")
            => /\ Len(RuleSet') \in {Len(RuleSet), Len(RuleSet) + 1}
               /\ \A i \in 1..Len(RuleSet) : RuleSet'[i] = RuleSet[i]
               /\ Len(RuleSet') = Len(RuleSet) + 1 <=> (Iteration /\ learned')
               /\ mode = "batch"
                    => Len(ignore_list') - stats'.new_ignore_list_count
                         = Len(ignore_list) - stats.new_ignore_list_count
        /\ (pc = "loaded" /\ pc' = "loop")
            => stats'.new_ignore_list_count = 0 ]_vars

\* a batch run of two entries has ended with one rule learned, appended
\* after the rule it started with, which is still the first
C24_Witness ==
    /\ mode = "batch"
    /\ pc = "done"
    /\ steps = 2
    /\ stats.new_ignore_list_count = 1
    /\ Len(ignore_list) = 2
    /\ ignore_list[1] = UserRule("u1", <<"x">>)
    /\ ignore_list[2].comment # None

====
